---- MODULE Spec2Model ----
(***************************************************************************)
(* Model of the AIL energy integration (custom_components/ail): the remote *)
(* reading client, the hourly aggregation, the incremental statistics      *)
(* merge and the historical backfill of EnergyDataUpdateCoordinator.       *)
(*                                                                         *)
(* Time is counted in minutes.  A datetime is the number of minutes since  *)
(* an arbitrary midnight; floats are modelled by naturals.  A Python dict  *)
(* is a sequence of entries in insertion order with unique keys, because   *)
(* the merge iterates dicts in insertion order.  The recorder applies a    *)
(* batch handed to async_add_external_statistics before the next           *)
(* get_last_statistics query is answered.                                  *)
(***************************************************************************)
EXTENDS Integers, Sequences, FiniteSets, TLC

\* ------------------------------------------------------------------------
\* Program constants
\* ------------------------------------------------------------------------
MinutesPerHour == 60
HoursPerDay == 24
SecondsPerMinute == 60
BackfillDays == 90
ChunkDays == 4
UpdateWindowDays == 4
NightEndHour == 7
MinTickers == 4
HttpOk == 200

Hour == MinutesPerHour
Day == HoursPerDay * Hour

\* ------------------------------------------------------------------------
\* Bounds of the model
\* ------------------------------------------------------------------------
\* the hour (since the origin) in which the model starts
StartHour == 2407
\* minutes past the hour of every call of datetime.now()
NowMinute == 50
\* how many hours the clock may advance
MaxAdvance == 1
\* minutes covered by one reading of the source
ReadingMinutes == 15
\* failed chunks per backfill run
MaxChunkFailures == 2
\* invocations cancelled in one behaviour
MaxCancels == 1
\* records of the response given to the aggregation on its own
MaxReadings == 5
\* imports waiting in the queue of the recorder
MaxQueue == 2

Now0 == StartHour * Hour + NowMinute
MaxNow == Now0 + MaxAdvance * Hour
\* the day and night values of a reading; the readings of one response
\* carry the same day value and the same night value
Values == {0, 1}
ReadingCounts == {MinTickers - 1, MinTickers}

\* the hours for which the source holds readings: one in the first backfill
\* chunk, one in the last backfill chunk (which the update window overlaps),
\* and the two latest hours, the second one in progress when the model starts
DataHours ==
    { (StartHour - 2162) * Hour, (StartHour - 17) * Hour,
      (StartHour - 1) * Hour, StartHour * Hour }

None == -1
Series == {"day", "night", "total"}

\* ------------------------------------------------------------------------
\* Python helpers
\* ------------------------------------------------------------------------
Truthy(x) == x # None /\ x # 0

Min(a, b) == IF a < b THEN a ELSE b

\* datetime.replace(minute=0, second=0, microsecond=0)
FloorHour(t) == (t \div Hour) * Hour

\* datetime.replace(hour=0, minute=0, second=0, microsecond=0)
FloorDay(t) == (t \div Day) * Day

\* datetime.hour
HourOf(t) == (t \div Hour) % HoursPerDay

\* datetime.timestamp(), in seconds
Timestamp(t) == t * SecondsPerMinute

Perms(S) ==
    { f \in [1..Cardinality(S) -> S] :
        \A i, j \in 1..Cardinality(S) : i # j => f[i] # f[j] }

Keys(d) == { d[i].from_date : i \in DOMAIN d }

\* dict.update(other): an existing key keeps its position and takes the new
\* value, a new key is appended
RECURSIVE DictUpdate(_, _)
DictUpdate(d, other) ==
    IF other = <<>> THEN d
    ELSE LET e == Head(other)
             d1 == IF e.from_date \in Keys(d)
                   THEN [i \in DOMAIN d |->
                            IF d[i].from_date = e.from_date THEN e ELSE d[i]]
                   ELSE Append(d, e)
         IN DictUpdate(d1, Tail(other))

\* ------------------------------------------------------------------------
\* ConsumptionData.from_api_response
\* ------------------------------------------------------------------------
RecordAccepted(record) ==
    record.readings_count # None /\ record.readings_count > 0

RECURSIVE FromApiResponse(_)
FromApiResponse(response) ==
    IF response = <<>> THEN <<>>
    ELSE LET record == Head(response)
             rest == FromApiResponse(Tail(response))
         IN IF RecordAccepted(record)
            THEN << [day |-> record.day, night |-> record.night,
                     from_date |-> record.from_, to_date |-> record.to,
                     tickers |-> 0] >> \o rest
            ELSE rest

\* variant: the total leaves out the night
TotalDayOnly(c) == c.day

\* ConsumptionData.total
Total(c) == c.day + c.night

\* getattr(consumption, data_type)
GetAttr(c, data_type) ==
    CASE data_type = "day" -> c.day
      [] data_type = "night" -> c.night
      [] data_type = "total" -> Total(c)

\* ------------------------------------------------------------------------
\* EnergyDataUpdateCoordinator._sum_hourly_consumptions
\* ------------------------------------------------------------------------
\* variant: the hour that begins at 7 counts as night
IsNightBucketThroughSeven(current) ==
    0 <= HourOf(current.from_date) /\ HourOf(current.from_date) <= NightEndHour

IsNightBucket(current) ==
    /\ 0 <= HourOf(current.from_date) /\ HourOf(current.from_date) < NightEndHour
    /\ 0 <= HourOf(current.to_date) /\ HourOf(current.to_date) <= NightEndHour

NewBucket(hour_key) ==
    [day |-> 0, night |-> 0, from_date |-> hour_key,
     to_date |-> hour_key + Hour, tickers |-> 0]

AddConsumption(current, consumption) ==
    IF IsNightBucket(current)
    THEN [current EXCEPT !.night = @ + consumption.day, !.tickers = @ + 1]
    ELSE [current EXCEPT !.day = @ + consumption.day, !.tickers = @ + 1]

RECURSIVE HourlySums(_)
HourlySums(consumptions) ==
    IF consumptions = <<>> THEN <<>>
    ELSE LET n == Len(consumptions)
             sums == HourlySums(SubSeq(consumptions, 1, n - 1))
             consumption == consumptions[n]
             hour_key == FloorHour(consumption.from_date)
             withKey == IF hour_key \in Keys(sums) THEN sums
                        ELSE Append(sums, NewBucket(hour_key))
         IN [i \in DOMAIN withKey |->
                IF withKey[i].from_date = hour_key
                THEN AddConsumption(withKey[i], consumption)
                ELSE withKey[i]]

\* variant of the filter: one reading too few
BucketCompleteLoose(v) == v.tickers >= MinTickers - 1

BucketComplete(v) == v.tickers >= MinTickers

SumHourlyConsumptions(consumptions) ==
    SelectSeq(HourlySums(consumptions), BucketComplete)

\* ------------------------------------------------------------------------
\* The statistics store (recorder): get_last_statistics and
\* async_add_external_statistics, as the coordinator uses them
\* ------------------------------------------------------------------------
\* variant: the row written last instead of the row with the latest start
GetLastStatisticsNewestRow(points) ==
    IF points = <<>> THEN <<>>
    ELSE << [start |-> Timestamp(points[Len(points)].start),
             sum |-> points[Len(points)].sum] >>

\* get_last_statistics(hass, 1, statistic_id, True, {"sum"}): the row with
\* the latest start, as a list of at most one element
GetLastStatistics(points) ==
    IF points = <<>> THEN <<>>
    ELSE LET i == CHOOSE k \in DOMAIN points :
                     \A j \in DOMAIN points :
                        \/ points[j].start < points[k].start
                        \/ (points[j].start = points[k].start /\ j <= k)
         IN << [start |-> Timestamp(points[i].start), sum |-> points[i].sum] >>

\* variant: the batch replaces the rows of the statistic
AddExternalStatisticsReplacing(points, statistics) == statistics

\* variant: only the first row of the batch is written
AddExternalStatisticsFirstOnly(points, statistics) ==
    points \o << Head(statistics) >>

\* async_add_external_statistics(hass, metadata, statistics)
AddExternalStatistics(points, statistics) == points \o statistics

\* ------------------------------------------------------------------------
\* EnergyDataUpdateCoordinator._insert_statistic_type
\* ------------------------------------------------------------------------
\* variant: the start of the last point is not read
LastStatsTimeUnread(last_stat) == None

LastStatsTime(last_stat) ==
    IF last_stat # <<>> THEN last_stat[1].start ELSE None

InitialSum(last_stat) ==
    IF last_stat # <<>> THEN last_stat[1].sum ELSE 0

\* variant: "<" for "<=", the hour of the last point is not skipped
AlreadyProcessedStrict(last_stats_time, hour) ==
    Truthy(last_stats_time) /\ Timestamp(hour) < last_stats_time

AlreadyProcessed(last_stats_time, hour) ==
    Truthy(last_stats_time) /\ Timestamp(hour) <= last_stats_time

RECURSIVE PrepareStatistics(_, _, _, _)
PrepareStatistics(consumptions, data_type, last_stats_time, sum_value) ==
    IF consumptions = <<>> THEN <<>>
    ELSE LET consumption == Head(consumptions)
             hour == consumption.from_date
             value == GetAttr(consumption, data_type)
         IN IF AlreadyProcessed(last_stats_time, hour)
            THEN PrepareStatistics(Tail(consumptions), data_type,
                                   last_stats_time, sum_value)
            ELSE << [start |-> hour, state |-> value,
                     sum |-> sum_value + value] >>
                 \o PrepareStatistics(Tail(consumptions), data_type,
                                      last_stats_time, sum_value + value)

NewStatistics(consumptions, data_type, points) ==
    LET last_stat == GetLastStatistics(points)
    IN PrepareStatistics(consumptions, data_type,
                         LastStatsTime(last_stat), InitialSum(last_stat))

InsertStatisticType(consumptions, data_type, points) ==
    LET statistics == NewStatistics(consumptions, data_type, points)
    IN IF statistics # <<>>
       THEN AddExternalStatistics(points, statistics)
       ELSE points

\* ------------------------------------------------------------------------
\* AILEnergyClient
\* ------------------------------------------------------------------------
\* the answers of the portal to the login form: the HTTP status and whether
\* the page holds the token marker and the meter identifier marker
LoginResponses ==
    [status : {HttpOk, 500}, token_match : BOOLEAN, meter_match : BOOLEAN]

AToken == 1
AMeter == 1

\* AILEnergyClient.login: the fields after the call and the returned value
LoginToken(tok, response) ==
    IF response.status = HttpOk /\ response.token_match THEN AToken ELSE tok

LoginMeter(mid, response) ==
    IF response.status = HttpOk /\ response.meter_match THEN AMeter ELSE mid

LoginReturn(tok, mid, response) ==
    /\ response.status = HttpOk
    /\ LoginToken(tok, response) # None
    /\ LoginMeter(mid, response) # None

\* the records the source returns for one hour: n accepted readings of day
\* value v and night value nv and, when the hour has room for one more
\* reading, possibly a pending record (readingsCount = 0)
HourRecords(h, n, v, nv, pend) ==
    [i \in 1..n |->
        [day |-> v, night |-> nv,
         from_ |-> h + (i - 1) * ReadingMinutes, to |-> h + i * ReadingMinutes,
         is_pending |-> FALSE, readings_count |-> 1]]
    \o (IF pend /\ (n + 1) * ReadingMinutes <= Hour
        THEN << [day |-> v, night |-> nv,
                 from_ |-> h + n * ReadingMinutes,
                 to |-> h + (n + 1) * ReadingMinutes,
                 is_pending |-> TRUE, readings_count |-> 0] >>
        ELSE <<>>)

\* the body of a readings response: the hours in the order the source lists
\* them
RECURSIVE BuildResponse(_, _, _, _, _)
BuildResponse(order, cnt, val, nv, pend) ==
    IF order = <<>> THEN <<>>
    ELSE HourRecords(Head(order), cnt[Head(order)], val[Head(order)], nv, pend)
         \o BuildResponse(Tail(order), cnt, val, nv, pend)

\* the hours of the source that lie in the window [_from, _to) and have at
\* least MinTickers - 1 finished readings at time t
WindowHours(from, to, t) ==
    { h \in DataHours :
        from <= h /\ h < to /\ h + (MinTickers - 1) * ReadingMinutes <= t }

CountChoices(hs, t) ==
    { c \in [hs -> ReadingCounts] : \A h \in hs : h + c[h] * ReadingMinutes <= t }

\* ------------------------------------------------------------------------
\* State
\* ------------------------------------------------------------------------
VARIABLES
    pc,                    \* where the coordinator task is suspended
    mode,                  \* the routine that runs: "setup", "update", "none"
    now,                   \* datetime.now()
    token, meter_id,       \* AILEnergyClient.token, AILEnergyClient.meter_id
    store,                 \* statistic id -> committed points, in commit order
    hourly_data,           \* the dict handed to _insert_statistics
    all_consumption_data,  \* _fetch_historical_data: buckets of all chunks
    chunk_start, end_date, \* _fetch_historical_data: the walk
    result,                \* how the invocation ended
    login_ok,              \* what login returned to this invocation
    http,                  \* the latest exchange with the portal, this invocation
    store0,                \* the store when this invocation began
    readings,              \* the records given to the aggregation (SpecAggregate)
    cancels,               \* the invocations cancelled so far (SpecCancel)
    queue,                 \* the imports the recorder has not applied (SpecAsync)
    accepted,              \* hour -> accepted readings fetched by this invocation
    fetches,               \* get_consumption_data calls of this invocation
    failures,              \* failed chunks of this backfill run
    lastCount              \* len(statistics) of the latest merge

vars == << pc, mode, now, token, meter_id, store, hourly_data,
           all_consumption_data, chunk_start, end_date, result, login_ok,
           http, store0, readings, cancels, queue, accepted, fetches, failures, lastCount >>

NoAccepted == [h \in DataHours |-> 0]

\* no exchange yet
NoHttp == [call |-> "none"]

\* an exchange: the call, the HTTP status (None when the request raised) and,
\* for the login page, the markers found in it
LoginExchange(response) ==
    [call |-> "login", status |-> response.status,
     token_match |-> response.token_match, meter_match |-> response.meter_match]

FetchExchange(status) == [call |-> "fetch", status |-> status]

Init ==
    /\ pc = "boot"
    /\ mode = "none"
    /\ now = Now0
    /\ token = None
    /\ meter_id = None
    /\ store = [s \in Series |-> <<>>]
    /\ hourly_data = <<>>
    /\ all_consumption_data = <<>>
    /\ chunk_start = 0
    /\ end_date = 0
    /\ result = "none"
    /\ login_ok = "none"
    /\ http = NoHttp
    /\ store0 = [s \in Series |-> <<>>]
    /\ readings = <<>>
    /\ cancels = 0
    /\ queue = <<>>
    /\ accepted = NoAccepted
    /\ fetches = 0
    /\ failures = 0
    /\ lastCount = 0

\* ------------------------------------------------------------------------
\* Pieces of the control flow
\* ------------------------------------------------------------------------
\* _async_setup: "if not last_stats", on the total statistic
NeedsHistory(st) == GetLastStatistics(st["total"]) = <<>>

\* _fetch_historical_data: start_date = end_date - timedelta(days=90)
StartDate(end) == end - BackfillDays * Day

\* variant: the end of the chunk is not held back to end_date
ChunkEndUnclipped(start, end) == start + ChunkDays * Day

\* _fetch_historical_data: chunk_end = min(chunk_start + chunk_size, end_date)
ChunkEnd(start, end) == Min(start + ChunkDays * Day, end)

\* variant: the next chunk begins a day before the end of this one
NextChunkStartOverlapping(chunk_end) == chunk_end - Day

\* _fetch_historical_data: "chunk_start = chunk_end", whatever the chunk did
NextChunkStart(chunk_end) == chunk_end

\* variant: a failed chunk discards what the earlier chunks collected
AfterChunkFailureDropsAll(all) == <<>>

\* _fetch_historical_data: the except branch keeps what was collected
AfterChunkFailure(all) == all

\* _fetch_historical_data: all_consumption_data.update(hourly_data)
AfterChunkSuccess(all, hourly) == DictUpdate(all, hourly)

\* variant: the value login returns is not tested
AfterLoginUnchecked(ok, next) == next

\* where the task goes after "if not await self.api_client.login()"
AfterLogin(ok, next) == IF ok THEN next ELSE "ret"

LoginResult(ok) == IF ok THEN "none" ELSE "AuthError"

\* _async_update_data: _from = datetime.now() - timedelta(days=4)
UpdateFrom(t) == t - UpdateWindowDays * Day

\* the ways the readings request fails: a status other than 200, an
\* exception of the session (status None), a payload that does not validate
FetchFailures ==
    { [status |-> 500, kind |-> "status"],
      [status |-> None, kind |-> "session"],
      [status |-> HttpOk, kind |-> "payload"] }

\* AILEnergyClient.get_consumption_data: the exception that leaves the call,
\* which _async_update_data lets through as it is
FetchRaises(tok, failure) ==
    CASE tok = None -> "ValueError"
      [] failure.kind = "status" -> "ConnectionError"
      [] failure.kind = "session" -> "ClientError"
      [] failure.kind = "payload" -> "ValidationError"

\* variant: the cycle goes on to the merge
FetchFailureContinues == "ins_day"

\* _async_update_data: an exception of the fetch ends the cycle
FetchFailurePc == "ret"

\* variant: the three calls are given the same statistic id
StatisticIdShared(data_type) == "total"

\* _insert_statistics: the statistic id handed to _insert_statistic_type
StatisticId(data_type) ==
    CASE data_type = "day" -> "day"
      [] data_type = "night" -> "night"
      [] data_type = "total" -> "total"

\* _insert_statistic_type on the store: the statistic it reads and writes
InsertInto(st, consumptions, data_type) ==
    [st EXCEPT ![StatisticId(data_type)] =
        InsertStatisticType(consumptions, data_type, st[StatisticId(data_type)])]

NextInsert(data_type) ==
    CASE data_type = "day" -> "ins_night"
      [] data_type = "night" -> "ins_total"
      [] data_type = "total" -> "ret"

InsertPc(data_type) ==
    CASE data_type = "day" -> "ins_day"
      [] data_type = "night" -> "ins_night"
      [] data_type = "total" -> "ins_total"

\* ------------------------------------------------------------------------
\* Actions
\* ------------------------------------------------------------------------
\* _async_setup, up to the login of _fetch_historical_data
Setup ==
    /\ pc = "boot"
    /\ IF NeedsHistory(store)
       THEN /\ end_date' = FloorDay(now)
            /\ chunk_start' = StartDate(FloorDay(now))
            /\ pc' = "bf_login"
            /\ mode' = "setup"
       ELSE /\ pc' = "idle"
            /\ mode' = "none"
            /\ UNCHANGED << end_date, chunk_start >>
    /\ store0' = store
    /\ UNCHANGED << now, token, meter_id, store, hourly_data,
                    all_consumption_data, result, login_ok, http, readings, cancels,
                    accepted, fetches, failures, lastCount, queue >>

\* AILEnergyClient.login as the coordinator awaits it: the fields, the
\* returned value and where the task goes
Login(next, raised) ==
    \/ \E response \in LoginResponses :
          LET ok == LoginReturn(token, meter_id, response)
          IN /\ token' = LoginToken(token, response)
             /\ meter_id' = LoginMeter(meter_id, response)
             /\ pc' = AfterLogin(ok, next)
             /\ result' = LoginResult(ok)
             /\ login_ok' = IF ok THEN "true" ELSE "false"
             /\ http' = LoginExchange(response)
    \/ \* the request raises (no connection, timeout)
       /\ pc' = "ret"
       /\ result' = raised
       /\ login_ok' = "raised"
       /\ http' = [call |-> "login", status |-> None,
                   token_match |-> FALSE, meter_match |-> FALSE]
       /\ UNCHANGED << token, meter_id >>

\* _fetch_historical_data: "if not await self.api_client.login()"
BackfillLogin ==
    /\ pc = "bf_login"
    /\ Login("bf_chunk", "ClientError")
    /\ all_consumption_data' = <<>>
    /\ UNCHANGED << mode, now, store, hourly_data, chunk_start, end_date,
                    store0, readings, cancels, accepted, fetches, failures, lastCount, queue >>

\* what follows the while loop of _fetch_historical_data
BackfillExit(all) ==
    IF all # <<>>
    THEN /\ hourly_data' = all
         /\ pc' = "ins_day"
    ELSE /\ hourly_data' = <<>>
         /\ pc' = "ret"

\* _fetch_historical_data: one iteration of the while loop and, after the
\* last one, the test that follows the loop
BackfillChunk ==
    /\ pc = "bf_chunk"
    /\ chunk_start < end_date
    /\ LET chunk_end == ChunkEnd(chunk_start, end_date)
           hs0 == WindowHours(chunk_start, chunk_end, now)
       IN /\ \/ /\ token # None
                /\ \E hs \in SUBSET hs0 : \E order \in Perms(hs) :
                   \E cnt \in CountChoices(hs, now) : \E v \in Values :
                   \E nv \in Values : \E pend \in BOOLEAN :
                      LET response == BuildResponse(order, cnt, [h \in hs |-> v], nv, pend)
                          consumption_data == FromApiResponse(response)
                          hourly == SumHourlyConsumptions(consumption_data)
                          all == AfterChunkSuccess(all_consumption_data, hourly)
                      IN /\ all_consumption_data' = all
                         /\ accepted' = [h \in DataHours |->
                                IF h \in hs THEN cnt[h] ELSE accepted[h]]
                         /\ IF NextChunkStart(chunk_end) < end_date
                            THEN pc' = "bf_chunk" /\ hourly_data' = hourly_data
                            ELSE BackfillExit(all)
                /\ failures' = failures
             \/ \* the request or the parsing raises: logged, chunk skipped
                /\ failures < MaxChunkFailures
                /\ failures' = failures + 1
                /\ all_consumption_data' = AfterChunkFailure(all_consumption_data)
                /\ accepted' = accepted
                /\ IF NextChunkStart(chunk_end) < end_date
                   THEN pc' = "bf_chunk" /\ hourly_data' = hourly_data
                   ELSE BackfillExit(AfterChunkFailure(all_consumption_data))
          /\ chunk_start' = NextChunkStart(chunk_end)
    /\ fetches' = fetches + 1
    /\ result' = "none"
    /\ http' = FetchExchange(IF failures' = failures THEN HttpOk ELSE 500)
    /\ UNCHANGED << mode, now, token, meter_id, store, end_date, login_ok,
                    store0, readings, cancels, lastCount, queue >>

\* _async_update_data: "if not await self.api_client.login()"
UpdateLogin ==
    /\ pc = "idle"
    /\ mode' = "update"
    /\ Login("up_fetch", "ClientError")
    /\ store0' = store
    /\ UNCHANGED << now, store, hourly_data, all_consumption_data, chunk_start,
                    end_date, readings, cancels, accepted, fetches, failures, lastCount, queue >>

\* _async_update_data: the fetch, the aggregation and the empty test
UpdateFetch ==
    /\ pc = "up_fetch"
    /\ fetches' = fetches + 1
    /\ \/ /\ token # None
          /\ \E hs \in SUBSET WindowHours(UpdateFrom(now), now, now) :
             \E order \in Perms(hs) :
             \E cnt \in CountChoices(hs, now) : \E v \in Values :
             \E nv \in Values : \E pend \in BOOLEAN :
                LET response == BuildResponse(order, cnt, [h \in hs |-> v], nv, pend)
                    consumption_data == FromApiResponse(response)
                    hourly == SumHourlyConsumptions(consumption_data)
                IN /\ hourly_data' = hourly
                   /\ accepted' = [h \in DataHours |->
                          IF h \in hs THEN cnt[h] ELSE accepted[h]]
                   /\ pc' = IF hourly = <<>> THEN "ret" ELSE "ins_day"
                   /\ result' = "none"
                   /\ http' = FetchExchange(HttpOk)
       \/ \* the request fails: a status other than 200, an exception of the
          \* session (timeout, no connection), a payload the model rejects
          /\ \E failure \in FetchFailures :
                /\ token = None => failure.kind = "status"
                /\ result' = FetchRaises(token, failure)
                /\ http' = IF token = None THEN http
                                            ELSE FetchExchange(failure.status)
          /\ pc' = FetchFailurePc
          /\ UNCHANGED << hourly_data, accepted >>
    /\ UNCHANGED << mode, now, token, meter_id, store, all_consumption_data,
                    chunk_start, end_date, login_ok, store0, readings, cancels,
                    failures, lastCount, queue >>

\* _insert_statistic_type for one statistic, called by _insert_statistics
InsertStatistic(data_type) ==
    /\ pc = InsertPc(data_type)
    /\ store' = InsertInto(store, hourly_data, data_type)
    /\ lastCount' = Len(NewStatistics(hourly_data, data_type,
                                      store[StatisticId(data_type)]))
    /\ pc' = NextInsert(data_type)
    /\ result' = IF data_type = "total" /\ mode = "update" THEN "value" ELSE "none"
    /\ UNCHANGED << mode, now, token, meter_id, hourly_data,
                    all_consumption_data, chunk_start, end_date, login_ok,
                    http, store0, readings, cancels, accepted, fetches, failures, queue >>

InsertStatistics == \E data_type \in Series : InsertStatistic(data_type)

\* the invocation returns or raises; a failed setup is tried again
Return ==
    /\ pc = "ret"
    /\ pc' = IF mode = "setup" /\ result # "none" THEN "boot" ELSE "idle"
    /\ hourly_data' = <<>>
    /\ all_consumption_data' = <<>>
    /\ chunk_start' = 0
    /\ end_date' = 0
    /\ result' = "none"
    /\ login_ok' = "none"
    /\ http' = NoHttp
    /\ store0' = store
    /\ accepted' = NoAccepted
    /\ fetches' = 0
    /\ failures' = 0
    /\ lastCount' = 0
    /\ mode' = "none"
    /\ UNCHANGED << now, token, meter_id, store, readings, cancels, queue >>

\* an hour passes between two invocations
Tick ==
    /\ pc = "idle"
    /\ now < MaxNow
    /\ now' = now + Hour
    /\ UNCHANGED << pc, mode, token, meter_id, store, hourly_data,
                    all_consumption_data, chunk_start, end_date, result,
                    login_ok, http, store0, readings, cancels, accepted, fetches,
                    failures, lastCount, queue >>

\* the host restarts: a new client (__init__) and a new setup
Restart ==
    /\ pc = "idle"
    /\ pc' = "boot"
    /\ token' = None
    /\ meter_id' = None
    /\ UNCHANGED << mode, now, store, hourly_data, all_consumption_data,
                    chunk_start, end_date, result, login_ok, http, store0,
                    readings, cancels, accepted, fetches, failures, lastCount, queue >>

Next ==
    \/ Setup
    \/ BackfillLogin
    \/ BackfillChunk
    \/ UpdateLogin
    \/ UpdateFetch
    \/ InsertStatistics
    \/ Return
    \/ Tick
    \/ Restart

Spec == Init /\ [][Next]_vars

\* ------------------------------------------------------------------------
\* Cancellation
\* ------------------------------------------------------------------------
\* the awaits at which a running invocation is suspended: the login and the
\* fetches of the historical walk, the fetch of the update and, for each
\* statistic, the query and the import of _insert_statistic_type
SuspensionPoints ==
    {"bf_login", "bf_chunk", "up_fetch", "ins_day", "ins_night", "ins_total"}

\* the task is cancelled at the await it is suspended in: CancelledError
\* leaves the invocation, no later statement of it runs
Cancel ==
    /\ pc \in SuspensionPoints
    /\ cancels < MaxCancels
    /\ cancels' = cancels + 1
    /\ pc' = "ret"
    /\ result' = "CancelledError"
    /\ UNCHANGED << mode, now, token, meter_id, store, hourly_data,
                    all_consumption_data, chunk_start, end_date, login_ok,
                    http, store0, readings, accepted, fetches, failures,
                    lastCount, queue >>

\* the invocations of one hour of one coordinator, any of them cancelled
NextCancel ==
    \/ Setup
    \/ BackfillLogin
    \/ BackfillChunk
    \/ UpdateLogin
    \/ UpdateFetch
    \/ InsertStatistics
    \/ Return
    \/ Cancel

SpecCancel == Init /\ [][NextCancel]_vars

\* ------------------------------------------------------------------------
\* Vocabulary of the properties
\* ------------------------------------------------------------------------
Starts(points) == { points[i].start : i \in DOMAIN points }

\* the statistics whose merge with the current hourly_data has run
Merged(data_type) ==
    /\ hourly_data # <<>>
    /\ CASE data_type = "day" -> pc \in {"ins_night", "ins_total", "ret"}
         [] data_type = "night" -> pc \in {"ins_total", "ret"}
         [] data_type = "total" -> pc = "ret"

\* the merge of data_type is the latest step taken
JustMerged(data_type) == hourly_data # <<>> /\ pc = NextInsert(data_type)

\* the points the latest merge appended to points
LastBatch(points) == SubSeq(points, Len(points) - lastCount + 1, Len(points))

\* the hours for which this invocation fetched a complete set of readings
CompleteHours == { h \in DataHours : accepted[h] >= MinTickers }

\* the hours for which this invocation fetched readings, but too few
IncompleteHours == { h \in DataHours : accepted[h] > 0 /\ accepted[h] < MinTickers }

RECURSIVE SumOfStates(_, _)
SumOfStates(points, upTo) ==
    IF points = <<>> THEN 0
    ELSE (IF Head(points).start <= upTo THEN Head(points).state ELSE 0)
         + SumOfStates(Tail(points), upTo)

\* ------------------------------------------------------------------------
\* Properties
\* ------------------------------------------------------------------------
\* C1: idempotence of the merge. Once a statistic has been merged with a
\* bucket mapping, merging it again with the same mapping prepares no point
\* and leaves the store as it is (no write).
C1_MergeIdempotent ==
    \A s \in Series :
        Merged(s) =>
            /\ NewStatistics(hourly_data, s, store[s]) = <<>>
            /\ InsertStatisticType(hourly_data, s, store[s]) = store[s]

\* a merge has just appended points
C1_Witness ==
    \E s \in Series : JustMerged(s) /\ lastCount > 0 /\ Len(store[s]) > lastCount

\* C2: no statistic holds two points with the same start, whatever backfill
\* runs and update cycles (with overlapping windows) have run.
C2_NoDuplicateStart ==
    \A s \in Series : \A i, j \in DOMAIN store[s] :
        i # j => store[s][i].start # store[s][j].start

\* an update cycle fetched an hour that was committed before, and skipped it
C2_Witness ==
    /\ mode = "update"
    /\ JustMerged("day")
    /\ lastCount > 0
    /\ \E i \in DOMAIN hourly_data :
          /\ hourly_data[i].from_date \in Starts(store["day"])
          /\ hourly_data[i].from_date \notin Starts(LastBatch(store["day"]))

\* C3: the sum of every point is the sum of the states of the points of its
\* statistic that start at or before it.
C3_SumIsRunningTotal ==
    \A s \in Series : \A i \in DOMAIN store[s] :
        store[s][i].sum = SumOfStates(store[s], store[s][i].start)

\* C4: in every statistic the sums do not decrease with the start, and a
\* point with a positive state has a larger sum than every earlier point.
C4_SumMonotone ==
    \A s \in Series : \A i, j \in DOMAIN store[s] :
        store[s][i].start < store[s][j].start =>
            /\ store[s][i].sum <= store[s][j].sum
            /\ store[s][j].state > 0 => store[s][i].sum < store[s][j].sum

\* C5: completeness filter. The aggregation returns exactly the hours with at
\* least MinTickers accepted readings, and every point a merge appends is
\* the point of such an hour; an hour with fewer accepted readings (the hour
\* in progress included) is not merged.
C5_CompletenessFilter ==
    /\ pc \in {"ins_day", "ins_night", "ins_total"} =>
          /\ Keys(hourly_data) = CompleteHours
          /\ \A i \in DOMAIN hourly_data :
                hourly_data[i].tickers = accepted[hourly_data[i].from_date]
    /\ \A s \in Series :
          JustMerged(s) => Starts(LastBatch(store[s])) \subseteq CompleteHours

\* a merge appended points while an incomplete hour had been fetched, and
\* that hour is not in the store
C5_Witness ==
    /\ JustMerged("total")
    /\ lastCount > 0
    /\ IncompleteHours # {}
    /\ IncompleteHours \cap Starts(store["total"]) = {}

PointAt(points, h) == points[CHOOSE i \in DOMAIN points : points[i].start = h]

\* C6: gap resilience. When a merge appends H1, the aggregation also held
\* H3 > H1 complete and H2 between them incomplete, and no other complete
\* hour lies between H1 and H3, the merge appends H1 and H3 and nothing
\* between them, and the sum of H3 is the sum of H1 plus the state of H3.
C6_GapResilience ==
    \A s \in Series :
        JustMerged(s) =>
            \A h1 \in CompleteHours, h2 \in IncompleteHours, h3 \in CompleteHours :
                ( /\ h1 < h2 /\ h2 < h3
                  /\ h1 \in Starts(LastBatch(store[s]))
                  /\ \A h \in CompleteHours : ~(h1 < h /\ h < h3) )
                =>
                ( /\ h3 \in Starts(LastBatch(store[s]))
                  /\ \A h \in Starts(store[s]) : ~(h1 < h /\ h < h3)
                  /\ PointAt(store[s], h3).sum
                        = PointAt(store[s], h1).sum + PointAt(store[s], h3).state )

\* C7: append-only ledger. Every step keeps the committed points of every
\* statistic as they are, and a point it appends starts later than every
\* point the statistic held before the step.
C7_AppendOnly ==
    [][ \A s \in Series :
            /\ Len(store'[s]) >= Len(store[s])
            /\ SubSeq(store'[s], 1, Len(store[s])) = store[s]
            /\ \A i \in (Len(store[s]) + 1)..Len(store'[s]) :
                  \A j \in DOMAIN store[s] :
                      store'[s][i].start > store[s][j].start ]_vars

\* a merge appended points to a statistic that already held points
C7_Witness ==
    /\ JustMerged("night")
    /\ lastCount > 0
    /\ Len(store["night"]) > lastCount
    /\ mode = "update"

\* the earliest point of a statistic
FirstStart(points) ==
    CHOOSE t \in Starts(points) : \A u \in Starts(points) : t <= u

\* the start of the latest point of a statistic
Watermark(points) ==
    CHOOSE t \in Starts(points) : \A u \in Starts(points) : u <= t

Occurrences(points, h) == Cardinality({ i \in DOMAIN points : points[i].start = h })

\* C8, as claimed: when an update cycle has run to its end, every hour its
\* readings report as complete and that is later than the first point of a
\* statistic is committed to that statistic exactly once.
C8_CompleteHoursCommitted ==
    (pc = "ret" /\ mode = "update" /\ result = "value") =>
        \A s \in Series : \A h \in CompleteHours :
            (store[s] # <<>> /\ h > FirstStart(store[s]))
                => Occurrences(store[s], h) = 1

\* C8, amended: a merge commits, exactly once, every complete hour that is
\* later than the latest point the statistic holds when the merge runs, and
\* it adds no point at or before that latest point.
C8_HoursAfterWatermarkCommitted ==
    [][ \A s \in Series :
            pc = InsertPc(s) =>
                /\ \A h \in CompleteHours :
                      (store[s] = <<>> \/ h > Watermark(store[s]))
                          => Occurrences(store'[s], h) = 1
                /\ \A h \in DataHours :
                      (store[s] # <<>> /\ h <= Watermark(store[s]))
                          => Occurrences(store'[s], h) = Occurrences(store[s], h)
      ]_vars

\* a merge has appended an hour while a complete hour before the latest
\* point stays uncommitted
C8_Witness ==
    /\ JustMerged("day")
    /\ lastCount > 0
    /\ \E h \in CompleteHours : h \notin Starts(store["day"])

\* the chunks of one backfill run: ceil(BackfillDays / ChunkDays)
NumChunks == (BackfillDays + ChunkDays - 1) \div ChunkDays

\* the historical fetch has left its loop
BackfillWalked ==
    mode = "setup" /\ pc \in {"ins_day", "ins_night", "ins_total", "ret"}
                   /\ login_ok = "true"

\* C9: partial failure of the backfill. Whatever chunks fail, the walk
\* fetches every chunk, does not raise, hands the complete hours of the
\* chunks that succeeded to the merge, and the merge commits them.
C9_BackfillSkipsFailedChunks ==
    BackfillWalked =>
        /\ fetches = NumChunks
        /\ chunk_start = end_date
        /\ result = "none"
        /\ Keys(hourly_data) = CompleteHours
        /\ pc = "ret" => \A s \in Series : Starts(store[s]) = CompleteHours

\* a backfill run with a failed chunk has committed the hours of two chunks
C9_Witness ==
    /\ BackfillWalked
    /\ pc = "ret"
    /\ failures > 0
    /\ Cardinality(Starts(store["total"])) >= 2

\* the login of the historical fetch has returned false
BackfillAuthFailed == mode = "setup" /\ login_ok = "false"

\* C10: authentication failure in the backfill. When login returns false
\* the historical fetch raises ConfigEntryAuthFailed at once: no chunk has
\* been or is fetched, no point is written, and the setup ends.
C10_BackfillAuthFailureAborts ==
    [][ /\ BackfillAuthFailed' =>
              /\ pc' = "ret"
              /\ result' = "AuthError"
              /\ fetches' = 0
              /\ store' = store
              /\ store'["total"] = <<>>
        /\ BackfillAuthFailed =>
              /\ pc' = "boot"
              /\ fetches' = 0
              /\ store' = store ]_vars

\* the login of a historical fetch has returned false
C10_Witness == BackfillAuthFailed /\ pc = "ret"

\* ------------------------------------------------------------------------
\* The recorder applies the imports later
\* ------------------------------------------------------------------------
\* _insert_statistic_type when async_add_external_statistics only queues
\* the import: the query sees the rows the recorder has applied, the batch
\* waits in the queue
InsertStatisticQueued(data_type) ==
    /\ pc = InsertPc(data_type)
    /\ LET statistics == NewStatistics(hourly_data, data_type,
                                       store[StatisticId(data_type)])
       IN /\ statistics # <<>> => Len(queue) < MaxQueue
          /\ queue' = IF statistics # <<>>
                      THEN Append(queue, [statistic_id |-> StatisticId(data_type),
                                          statistics |-> statistics])
                      ELSE queue
          /\ lastCount' = Len(statistics)
    /\ pc' = NextInsert(data_type)
    /\ result' = IF data_type = "total" /\ mode = "update" THEN "value" ELSE "none"
    /\ UNCHANGED << mode, now, token, meter_id, store, hourly_data,
                    all_consumption_data, chunk_start, end_date, login_ok,
                    http, store0, readings, cancels, accepted, fetches,
                    failures >>

InsertStatisticsQueued ==
    \E data_type \in Series : InsertStatisticQueued(data_type)

\* where the coordinator queries the store next: get_last_statistics in
\* _async_setup and in _insert_statistic_type
QueryPoints == {"boot", "ins_day", "ins_night", "ins_total"}

\* the recorder thread takes the oldest import of its queue and writes it;
\* followed up to the next query of the coordinator, the only place where
\* the coordinator sees how far the recorder is
ApplyImport ==
    /\ queue # <<>>
    /\ pc \in QueryPoints
    /\ store' = [store EXCEPT ![Head(queue).statistic_id] =
                    AddExternalStatistics(@, Head(queue).statistics)]
    /\ queue' = Tail(queue)
    /\ UNCHANGED << pc, mode, now, token, meter_id, hourly_data,
                    all_consumption_data, chunk_start, end_date, result,
                    login_ok, http, store0, readings, cancels, accepted,
                    fetches, failures, lastCount >>

\* the invocations of one hour of one coordinator over such a recorder
NextAsync ==
    \/ Setup
    \/ BackfillLogin
    \/ BackfillChunk
    \/ UpdateLogin
    \/ UpdateFetch
    \/ InsertStatisticsQueued
    \/ Return
    \/ ApplyImport

SpecAsync == Init /\ [][NextAsync]_vars

\* ------------------------------------------------------------------------
\* The aggregation on its own
\* ------------------------------------------------------------------------
\* the last night hour and the first day hour
AggHours == {(NightEndHour - 1) * Hour, NightEndHour * Hour}

\* the records of a response: for each hour a reading at its start, a
\* reading of other values in its last quarter, and a record without
\* readings
AggRecords ==
    UNION { { [day |-> 1, night |-> 0, from_ |-> h, to |-> h + ReadingMinutes,
               is_pending |-> FALSE, readings_count |-> 1],
              [day |-> 2, night |-> 1, from_ |-> h + Hour - ReadingMinutes,
               to |-> h + Hour, is_pending |-> FALSE, readings_count |-> 1],
              [day |-> 1, night |-> 1, from_ |-> h, to |-> h + ReadingMinutes,
               is_pending |-> TRUE, readings_count |-> 0] } : h \in AggHours }

\* _async_update_data, lines 132 and 136: a response one record longer is
\* parsed and aggregated
Aggregate ==
    /\ Len(readings) < MaxReadings
    /\ \E record \in AggRecords :
          /\ readings' = Append(readings, record)
          /\ hourly_data' = SumHourlyConsumptions(FromApiResponse(readings'))
    /\ UNCHANGED << pc, mode, now, token, meter_id, store,
                    all_consumption_data, chunk_start, end_date, result,
                    login_ok, http, store0, cancels, accepted, fetches,
                    failures, lastCount, queue >>

NextAggregate == Aggregate

SpecAggregate == Init /\ [][NextAggregate]_vars

\* ------------------------------------------------------------------------
\* C11 .. C20
\* ------------------------------------------------------------------------
\* the historical fetch is under way: its login or one of its chunks is next
BackfillRunning == mode = "setup" /\ pc \in {"bf_login", "bf_chunk"}

\* C11: backfill trigger. The historical fetch runs only when none of the
\* three statistics (day, night, total) has a point: whenever it is under
\* way, every statistic of the store is empty.
C11_BackfillOnlyWhenStoreEmpty ==
    BackfillRunning => \A s \in Series : store[s] = <<>>

\* an update cycle has ended: its value or its exception is in result
CycleEnded == mode = "update" /\ pc = "ret"

\* what spec 6 lets leave run_cycle: the reading, none, and the two errors
CycleOutcomes == {"value", "none", "AuthError", "UpdateError"}

\* C12: cycle error classes. Every update cycle ends in a returned value
\* (a reading or none), in the authentication error, or in the update error
\* that wraps every other failure; no other exception leaves the cycle.
C12_CycleEndsInValueAuthOrUpdateError ==
    CycleEnded => result \in CycleOutcomes

\* the portal answered the latest call with a status other than 200
NonSuccessStatus == http.call # "none" /\ http.status \notin {None, HttpOk}

\* C13: transport failure. When the portal answers the login or the
\* readings request of an update cycle with a status other than 200, the
\* cycle ends in the connection error that carries the status, not in the
\* authentication error.
C13_NonSuccessStatusIsTransportFailure ==
    (CycleEnded /\ NonSuccessStatus) => result = "ConnectionError"

\* the login page came back without the token or without the meter marker
MarkerMissing ==
    /\ http.call = "login"
    /\ http.status # None
    /\ ~(http.token_match /\ http.meter_match)

\* C14: login without markers. Whatever the client holds from an earlier
\* login, a login whose response lacks the token marker or the meter marker
\* returns False and raises nothing.
C14_LoginWithoutMarkersReturnsFalse ==
    MarkerMissing => login_ok = "false"

\* the exceptions an update cycle ends in
CycleFailures ==
    {"AuthError", "ConnectionError", "ClientError", "ValidationError",
     "ValueError"}

\* the update cycle has failed in its login or in its fetch
CycleFailed == mode = "update" /\ result \in CycleFailures

\* C15: a failed cycle leaves the store alone. A cycle that fails in the
\* authentication, in the fetch (status other than 200, timeout) or on a
\* malformed payload ends at once with the store as it was when the cycle
\* began, and hands that same store to the next cycle.
C15_FailedCycleLeavesStore ==
    [][ /\ CycleFailed' => (pc' = "ret" /\ store' = store0')
        /\ CycleFailed => (pc' = "idle" /\ store' = store0) ]_vars

\* a cycle has failed on a malformed payload over a store that holds points
C15_Witness ==
    /\ CycleFailed
    /\ result = "ValidationError"
    /\ store["total"] # <<>>
    /\ store = store0

\* the invocation has been cancelled at one of its awaits
Cancelled == pc = "ret" /\ result = "CancelledError"

\* the points that after holds behind those of before
Appended(before, after) == SubSeq(after, Len(before) + 1, Len(after))

\* after is before with points added at its end
Extends(before, after) ==
    /\ Len(before) <= Len(after)
    /\ SubSeq(after, 1, Len(before)) = before

\* the hours the merge of this invocation owes to a statistic: the
\* aggregated hours later than the latest point it held at the start
DueHours(s) ==
    { h \in Keys(hourly_data) :
        store0[s] = <<>> \/ h > Watermark(store0[s]) }

\* the sum a statistic has reached: the sum of its latest point
ReachedSum(points) ==
    IF points = <<>> THEN 0 ELSE PointAt(points, Watermark(points)).sum

\* a merge step continues the statistic from its latest point and sum
ContinuesFrom(before, after) ==
    /\ Extends(before, after)
    /\ LET batch == Appended(before, after)
       IN /\ \A i \in DOMAIN batch :
                before # <<>> => batch[i].start > Watermark(before)
          /\ batch # <<>> => batch[1].sum = ReachedSum(before) + batch[1].state
          /\ \A i \in 2..Len(batch) :
                batch[i].sum = batch[i - 1].sum + batch[i].state

\* C16: cancellation. When an invocation is cancelled at an await, every
\* statistic holds its points of before the invocation followed by either
\* none or all of the hours the merge owes it, never a part of them; and
\* every merge step, those after a cancellation included, continues each
\* statistic from the latest point and the sum it holds.
C16_CancelKeepsBatchesWhole ==
    /\ [](Cancelled =>
            \A s \in Series :
               /\ Extends(store0[s], store[s])
               /\ Starts(store[s]) \ Starts(store0[s]) \in {{}, DueHours(s)}
               /\ Len(store[s]) - Len(store0[s])
                    \in {0, Cardinality(DueHours(s))})
    /\ [][\A s \in Series : ContinuesFrom(store[s], store'[s])]_vars

\* cancelled between two merges: the day statistic holds the whole batch of
\* two hours, the total statistic none of it
C16_Witness ==
    /\ Cancelled
    /\ Cardinality(DueHours("day")) >= 2
    /\ Starts(store["day"]) \ Starts(store0["day"]) = DueHours("day")
    /\ store["total"] = store0["total"]

\* the step taken is the merge of statistic s
MergeStep(s) == pc = InsertPc(s) /\ result' # "CancelledError"

\* the aggregated hours later than the latest point of points
HoursAfter(points) ==
    { h \in Keys(hourly_data) : points = <<>> \/ h > Watermark(points) }

\* C17: series independence. The merge of one statistic leaves the two
\* other statistics as they are, and what it appends is fixed by the
\* aggregated hours and that statistic's own latest point and sum: the
\* hours later than its own latest point, with sums that continue its own.
C17_MergeTouchesOwnSeries ==
    [][\A s \in Series :
          MergeStep(s) =>
             /\ \A t \in Series \ {s} : store'[t] = store[t]
             /\ ContinuesFrom(store[s], store'[s])
             /\ Starts(Appended(store[s], store'[s])) = HoursAfter(store[s])
      ]_vars

\* the night statistic has been merged in a cycle that found the day
\* statistic ahead of it, and the total statistic is untouched
C17_Witness ==
    /\ JustMerged("night")
    /\ lastCount > 0
    /\ Starts(store0["day"]) # Starts(store0["night"])
    /\ store["total"] = store0["total"]

\* C18: login before fetch. In every update cycle and every historical
\* fetch, a readings request is issued only after a login of the same
\* invocation has returned true: none after a login that returned false or
\* raised, none on the login of an earlier invocation.
C18_FetchAfterOwnLogin ==
    /\ [](fetches > 0 => login_ok = "true")
    /\ [][ /\ fetches' > fetches => login_ok = "true"
           /\ login_ok \in {"false", "raised"} => fetches' = 0 ]_vars

\* an update cycle that follows an authenticated invocation has fetched
\* after a login of its own
C18_Witness ==
    /\ mode = "update"
    /\ fetches = 1
    /\ login_ok = "true"
    /\ store0["total"] # <<>>

\* the buckets of a dict, without their order
Buckets(d) == { d[i] : i \in DOMAIN d }

\* seq with the records at i and j exchanged
Exchange(seq, i, j) ==
    [k \in DOMAIN seq |->
        IF k = i THEN seq[j] ELSE IF k = j THEN seq[i] ELSE seq[k]]

\* the bucket begins in the night hours [0, NightEndHour)
NightHour(b) == HourOf(b.from_date) \in 0..(NightEndHour - 1)

\* all of the bucket is on the side of its hour
OnOwnSide(b) == IF NightHour(b) THEN b.day = 0 ELSE b.night = 0

\* C19: day and night. The aggregation of a response and of the response
\* with any two of its records exchanged (the exchanges make up every
\* permutation) give the same buckets, before and after the completeness
\* filter, with the same day and night totals and reading counts; a bucket
\* that begins at hour 0..6 holds all of it in night and has day 0, every
\* other bucket holds all of it in day and has night 0.
C19_SameBucketsOnOwnSide ==
    LET sums == HourlySums(FromApiResponse(readings))
    IN /\ \A i, j \in DOMAIN readings :
            LET other == FromApiResponse(Exchange(readings, i, j))
            IN /\ Buckets(HourlySums(other)) = Buckets(sums)
               /\ Buckets(SumHourlyConsumptions(other)) = Buckets(hourly_data)
       /\ \A b \in Buckets(sums) \cup Buckets(hourly_data) : OnOwnSide(b)

\* a response that mixes the records of a night hour and of a day hour has
\* given a complete night bucket of readings of different values
C19_Witness ==
    /\ Len(HourlySums(FromApiResponse(readings))) = 2
    /\ \E b \in Buckets(hourly_data) :
          /\ NightHour(b)
          /\ b.night > MinTickers
          /\ b.day = 0
    /\ HourOf(readings[1].from_) = NightEndHour

\* the points are in strictly ascending order of their start
Ascending(points) ==
    \A i \in 1..(Len(points) - 1) : points[i].start < points[i + 1].start

\* C20: merge order. Whatever the order of the readings and of the chunks,
\* the points one merge call appends are in strictly ascending order of
\* their hour, so that the sum of each is the running sum of the hours
\* before it.
C20_BatchAscending ==
    \A s \in Series : JustMerged(s) => Ascending(LastBatch(store[s]))

\* ------------------------------------------------------------------------
\* C21 .. C25
\* ------------------------------------------------------------------------
\* what the source reports for an hour: the day and night values of the
\* records with readings that begin in it
RECURSIVE ReportedFor(_, _)
ReportedFor(response, hour) ==
    IF response = <<>> THEN 0
    ELSE (IF RecordAccepted(Head(response)) /\ FloorHour(Head(response).from_) = hour
          THEN Head(response).day + Head(response).night
          ELSE 0)
         + ReportedFor(Tail(response), hour)

\* C21: conservation. For every bucket of the aggregation, day plus night
\* equals the sum of the day and night values of the records with readings
\* that begin in its hour: nothing of a reading is lost.
C21_ConsumptionConserved ==
    \A b \in Buckets(HourlySums(FromApiResponse(readings))) :
        b.day + b.night = ReportedFor(readings, b.from_date)

\* the step taken fetches one chunk of the historical walk: the window
\* [chunk_start, chunk_start')
ChunkStep == mode = "setup" /\ fetches' = fetches + 1

\* the chunks walk [from, to): the first begins at from, each is one fetch
\* of at most ChunkDays days that begins where the one before ended, none
\* passes to, and the walk leaves its loop when to is reached
WalksWindow(from, to) ==
    ChunkStep =>
        /\ fetches = 0 => chunk_start = from
        /\ chunk_start < chunk_start'
        /\ chunk_start' - chunk_start <= ChunkDays * Day
        /\ chunk_start' <= to
        /\ pc' # "bf_chunk" <=> chunk_start' = to

\* C22, as claimed: the historical fetch walks [now - 90 days, now) one
\* chunk at a time, in ascending order, in consecutive windows of at most 4
\* days that do not overlap.
C22_WalksBackFromNow ==
    [][WalksWindow(now - BackfillDays * Day, now)]_vars

\* C22, amended: the window walked ends at the midnight that began the
\* current day, [midnight - 90 days, midnight); the hours of the current
\* day are not part of it.
C22_WalksBackFromMidnight ==
    [][WalksWindow(FloorDay(now) - BackfillDays * Day, FloorDay(now))]_vars

\* a walk has fetched all its chunks and ended at midnight, before now
C22_Witness ==
    /\ mode = "setup"
    /\ login_ok = "true"
    /\ fetches = NumChunks
    /\ chunk_start = FloorDay(now)
    /\ chunk_start < now
    /\ pc # "bf_chunk"

\* no invocation is under way
Quiescent == pc \in {"idle", "boot"}

\* C23: the three statistics agree. Between invocations that ran to their
\* end or failed before their first write, day, night and total hold points
\* for the same hours, the state of total at each hour is the state of day
\* plus the state of night, and the sum total has reached is the sum day
\* has reached plus the sum night has reached.
C23_SeriesAgree ==
    Quiescent =>
        /\ Starts(store["day"]) = Starts(store["total"])
        /\ Starts(store["night"]) = Starts(store["total"])
        /\ \A h \in Starts(store["total"]) :
              PointAt(store["total"], h).state
                 = PointAt(store["day"], h).state + PointAt(store["night"], h).state
        /\ ReachedSum(store["total"])
              = ReachedSum(store["day"]) + ReachedSum(store["night"])

\* the statistics hold a night hour and a day hour with consumption,
\* committed out of order
C23_Witness ==
    /\ Quiescent
    /\ \E i \in DOMAIN store["night"] : store["night"][i].state > 0
    /\ \E i \in DOMAIN store["day"] : store["day"][i].state > 0
    /\ ~Ascending(store["total"])

\* the rows of the imports of a statistic that wait in the queue before
\* position k, in the order the recorder will write them
RECURSIVE WaitingBefore(_, _)
WaitingBefore(k, id) ==
    IF k <= 1 THEN <<>>
    ELSE WaitingBefore(k - 1, id)
         \o (IF queue[k - 1].statistic_id = id
             THEN queue[k - 1].statistics ELSE <<>>)

\* C24: read your writes. When the recorder applies an import after
\* async_add_external_statistics has returned, every batch a merge hands
\* over continues the statistic from what was handed over before it, applied
\* or not: it holds no hour at or before the latest hour handed over, and
\* its first sum is the sum reached there plus its state.
C24_ReadYourWrites ==
    \A k \in DOMAIN queue :
        LET before == store[queue[k].statistic_id]
                        \o WaitingBefore(k, queue[k].statistic_id)
        IN ContinuesFrom(before, before \o queue[k].statistics)

\* C25: the historical fetch ends. After a login that returned true every
\* step of the loop fetches one chunk, whether the chunk succeeds or fails;
\* the loop still has a chunk to fetch as long as fewer than
\* ceil(BackfillDays / ChunkDays) were fetched and is left when that many
\* were; after it each statistic is written at most once, and only then.
C25_BackfillEnds ==
    /\ [](mode = "setup" =>
            /\ fetches <= NumChunks
            /\ pc = "bf_chunk" => (fetches < NumChunks /\ chunk_start < end_date)
            /\ pc \in {"ins_day", "ins_night", "ins_total"} => fetches = NumChunks)
    /\ [][mode = "setup" =>
            /\ pc = "bf_chunk" => fetches' = fetches + 1
            /\ \A s \in Series :
                  store'[s] # store[s] =>
                     (pc = InsertPc(s) /\ store[s] = store0[s])
         ]_vars

\* a walk with failed chunks has ended and each statistic was written once
C25_Witness ==
    /\ mode = "setup"
    /\ pc = "ret"
    /\ login_ok = "true"
    /\ fetches = NumChunks
    /\ failures = MaxChunkFailures
    /\ \A s \in Series : store[s] # store0[s]

====
